---- MODULE Spec2Model ----
(***************************************************************************)
(* A model of dojima's LedgerX REST client (src/dojima/brokers/ledgerx.py). *)
(* The client is a class holding a JWT and a requests.Session; every       *)
(* endpoint method assembles a parameter mapping, hands it to _request,    *)
(* which issues exactly one HTTP request on the session, and unwraps the   *)
(* "data" field of what _request returns.                                  *)
(*                                                                         *)
(* A call is modelled in two steps, split at the blocking network call of  *)
(* line 381: the call step builds and issues the request (pc becomes       *)
(* "in_request"), the Respond step receives the exchange's answer, runs    *)
(* lines 383-393 and the endpoint's response.get("data").  Nothing else is *)
(* enabled while pc = "in_request".                                        *)
(***************************************************************************)
EXTENDS Integers, Sequences, FiniteSets, TLC

\* Every field name and mapping key of the model.  TLC keeps the fields of a
\* record in the order in which their names first occur in the module: with
\* this list first, that order is the alphabetical one, in which every
\* record and mapping below is written.
FieldNames ==
    [Authorization |-> {}, active |-> {}, after_ts |-> {},
     allow_redirects |-> {}, args |-> {}, asset |-> {}, before_ts |-> {},
     contract_id |-> {}, contract_type |-> {}, data |-> {},
     derivative_type |-> {}, endpoint |-> {}, headers |-> {}, host |-> {}, is_ask |-> {},
     json |-> {}, kind |-> {}, limit |-> {}, meta |-> {}, method |-> {},
     mid |-> {}, offset |-> {}, opts |-> {}, order_type |-> {},
     params |-> {}, path |-> {}, price |-> {}, scheme |-> {}, size |-> {},
     status |-> {}, status_code |-> {}, swap_purpose |-> {}, t |-> {},
     text |-> {}, time |-> {}, total_count |-> {}, url |-> {}, v |-> {},
     value |-> {}, volatile |-> {}]

VARIABLES
    jwt_token,       \* self._jwt_token
    session,         \* self._session (the identity of the Session object)
    arg_jwt_token,   \* the jwt_token argument the constructor was given
    pc,              \* "idle", or "in_request": blocked in session.request
    nCalls,          \* number of method calls made so far
    call,            \* the current/last method call: [endpoint, args]
    request,         \* what session.request was last called with
    issued,          \* every request the session has sent, oldest first
    response,        \* the last response of the exchange
    request_result,  \* what _request last returned (or raised)
    outcome          \* what the last method call returned (or raised)

vars == <<jwt_token, session, arg_jwt_token, pc, nCalls, call, request,
          issued, response, request_result, outcome>>

\* Number of method calls in a behaviour.
MaxCalls == 2

-----------------------------------------------------------------------------
(* Python values, tagged by type so that values of different types compare *)
(* unequal.  Records and mappings are unordered; their fields are written  *)
(* in alphabetical order throughout.                                       *)
None == [t |-> "NoneType"]
PyBool(b) == [t |-> "bool", v |-> b]
PyInt(n) == [t |-> "int", v |-> n]
PyStr(s) == [t |-> "str", v |-> s]
PyDatetime(s) == [t |-> "datetime", v |-> s]
PyList(s) == [t |-> "list", v |-> s]
PyDict(f) == [t |-> "dict", v |-> f]
EmptyDict == PyDict(<<>>)

\* An f-string's {x}: the text of a str or an int.
format(x) == IF x.t = "int" THEN ToString(x.v) ELSE x.v

(* HTTP verbs are sequences of characters, so that str.upper() is computed. *)
LowerCase == <<"a","b","c","d","e","f","g","h","i","j","k","l","m",
               "n","o","p","q","r","s","t","u","v","w","x","y","z">>
UpperCase == <<"A","B","C","D","E","F","G","H","I","J","K","L","M",
               "N","O","P","Q","R","S","T","U","V","W","X","Y","Z">>
upper_char(c) ==
    IF \E i \in DOMAIN LowerCase : LowerCase[i] = c
    THEN UpperCase[CHOOSE i \in DOMAIN LowerCase : LowerCase[i] = c]
    ELSE c
upper(s) == [i \in 1..Len(s) |-> upper_char(s[i])]

GET == <<"G","E","T">>
POST == <<"P","O","S","T">>
DELETE == <<"D","E","L","E","T","E">>
PUT == <<"P","U","T">>
PATCH == <<"P","A","T","C","H">>

ApiHost == "api.ledgerx.com"
TradeHost == "trade.ledgerx.com"
\* A URL https://<host>/<path segments joined by "/">.
Url(host, path) == [host |-> host, path |-> path, scheme |-> "https"]

\* What an endpoint hands to self._request(method, url, data).
Invocation(method, url, data) == [data |-> data, method |-> method, url |-> url]

-----------------------------------------------------------------------------
(* The endpoint methods: each assembles its parameter mapping and names    *)
(* the verb and the URL it hands to _request.                              *)

\* get_contracts with the None-valued entries left out of the mapping.
get_contracts_drop_none(active, contract_type, derivative_type, asset, before_ts, after_ts, limit, offset) ==
    LET full == [active |-> active, after_ts |-> after_ts, asset |-> asset,
                 before_ts |-> before_ts, contract_type |-> contract_type,
                 derivative_type |-> derivative_type,
                 limit |-> limit, offset |-> offset]
        kept == {k \in DOMAIN full : full[k] # None}
    IN  Invocation(GET, Url(ApiHost, <<"trading", "contracts">>),
                   PyDict([k \in kept |-> full[k]]))

get_contracts(active, contract_type, derivative_type, asset, before_ts, after_ts, limit, offset) ==
    Invocation(GET, Url(ApiHost, <<"trading", "contracts">>),
               PyDict([active |-> active, after_ts |-> after_ts, asset |-> asset,
                       before_ts |-> before_ts, contract_type |-> contract_type,
                       derivative_type |-> derivative_type,
                       limit |-> limit, offset |-> offset]))

get_traded_contracts(derivative_type, asset, limit, offset) ==
    Invocation(GET, Url(ApiHost, <<"trading", "contracts", "traded">>),
               PyDict([asset |-> asset, derivative_type |-> derivative_type,
                       limit |-> limit, offset |-> offset]))

get_contract_details(contract_id) ==
    Invocation(GET,
               Url(ApiHost, <<"trading", "contracts", format(contract_id)>>),
               None)

get_contract_position(contract_id) ==
    Invocation(GET,
               Url(ApiHost, <<"trading", "contracts", format(contract_id),
                              "position">>),
               None)

get_contract_ticker(contract_id, time, asset) ==
    Invocation(GET,
               Url(ApiHost, <<"trading", "contracts", format(contract_id),
                              "ticker">>),
               PyDict([asset |-> asset, time |-> time]))

get_positions(limit, offset) ==
    Invocation(GET, Url(ApiHost, <<"trading", "positions">>),
               PyDict([limit |-> limit, offset |-> offset]))

get_trades_for_position(contract_id) ==
    Invocation(GET,
               Url(ApiHost, <<"trading", "positions", format(contract_id),
                              "trades">>),
               None)

get_open_orders == Invocation(GET, Url(TradeHost, <<"api", "open-orders">>), None)

create_order(contract_id, order_type, is_ask, size, price, volatile, swap_purpose) ==
    Invocation(POST, Url(TradeHost, <<"api", "orders">>),
               PyDict([contract_id |-> contract_id, is_ask |-> is_ask,
                       order_type |-> order_type, price |-> price, size |-> size,
                       swap_purpose |-> swap_purpose, volatile |-> volatile]))

delete_all_orders == Invocation(DELETE, Url(TradeHost, <<"api", "orders">>), None)

delete_single_order(mid, contract_id) ==
    Invocation(DELETE, Url(TradeHost, <<"api", "orders", format(mid)>>),
               PyDict([contract_id |-> contract_id]))

\* patch_order issuing the verb its name suggests.
patch_order_PATCH(mid, contract_id, price, size) ==
    Invocation(PATCH, Url(TradeHost, <<"api", "orders", format(mid), "edit">>),
               PyDict([contract_id |-> contract_id, price |-> price,
                       size |-> size]))

patch_order(mid, contract_id, price, size) ==
    Invocation(DELETE, Url(TradeHost, <<"api", "orders", format(mid), "edit">>),
               PyDict([contract_id |-> contract_id, price |-> price,
                       size |-> size]))

get_current_book_state(contract_id) ==
    Invocation(GET, Url(TradeHost, <<"api", "book-states", format(contract_id)>>),
               None)

-----------------------------------------------------------------------------
(* _request: lines 358-393.                                                *)

\* The header with another scheme than the exchange's "JWT ".
headers_bearer(token) == "Authorization" :> ("Bearer " \o token)

\* Line 369.
headers(token) == "Authorization" :> ("JWT " \o token)

\* The verb compared as written, without upper().
opts_case_sensitive(method, data, token) ==
    ("allow_redirects" :> FALSE) @@ ("headers" :> headers(token))
    @@ (IF method \in {GET, DELETE} THEN "params" :> data ELSE "json" :> data)

\* The keyword dictionary kept from one call to the next instead of built
\* afresh: entries of the previous request survive unless overwritten.
opts_shared(method, data, token) ==
    LET new == ("allow_redirects" :> FALSE) @@ ("headers" :> headers(token))
               @@ (IF upper(method) \in {GET, DELETE} THEN "params" :> data
                   ELSE "json" :> data)
        old == IF nCalls > 0 THEN request.opts ELSE new
    IN  [k \in DOMAIN new \cup DOMAIN old |->
            IF k \in DOMAIN new THEN new[k] ELSE old[k]]

\* Lines 371-379: the keyword arguments of session.request.
opts(method, data, token) ==
    ("allow_redirects" :> FALSE) @@ ("headers" :> headers(token))
    @@ (IF upper(method) \in {GET, DELETE} THEN "params" :> data ELSE "json" :> data)

\* What reaches the wire of a request: verb, host, headers, redirect policy.
Digest(req) ==
    [allow_redirects |-> req.opts["allow_redirects"],
     headers |-> req.opts["headers"],
     host |-> req.url.host, method |-> req.method]

\* The request sent a second time.
session_request_resend(log, req) == Append(Append(log, Digest(req)), Digest(req))

\* Line 381: one call of self._session.request per call of _request.
session_request(log, req) == Append(log, Digest(req))

\* requests.Response.raise_for_status raising for server errors only.
raise_for_status_5xx(resp) == 500 <= resp.status_code /\ resp.status_code < 600

\* Line 384: requests.Response.raise_for_status raises HTTPError exactly for
\* the client errors (4xx) and the server errors (5xx).
raise_for_status(resp) == 400 <= resp.status_code /\ resp.status_code < 600

\* The response bodies of the model, and what response.json() makes of each.
BodyEmpty == ""
BodyNoData == "{}"
BodyEmptyList == "{\"data\": []}"
BodyEmptyDict == "{\"data\": {}}"
BodyOrders == "{\"data\": [{\"mid\": \"mid-1\"}], \"meta\": {\"total_count\": 1}}"
BodyTopLevelList == "[]"
BodyHtml == "<html>Moved</html>"
Bodies == {BodyEmpty, BodyNoData, BodyEmptyList, BodyEmptyDict, BodyOrders,
           BodyTopLevelList, BodyHtml}

Return(v) == [kind |-> "return", value |-> v]
Raise(e) == [kind |-> "raise", value |-> PyStr(e)]

\* Line 390: response.json(); an empty or non-JSON text raises.
json(text) ==
    CASE text = BodyNoData -> Return(EmptyDict)
      [] text = BodyEmptyList -> Return(PyDict("data" :> PyList(<<>>)))
      [] text = BodyEmptyDict -> Return(PyDict("data" :> EmptyDict))
      [] text = BodyOrders ->
            Return(PyDict(("data" :> PyList(<<PyDict("mid" :> PyStr("mid-1"))>>))
                          @@ ("meta" :> PyDict("total_count" :> PyInt(1)))))
      [] text = BodyTopLevelList -> Return(PyList(<<>>))
      [] OTHER -> Raise("JSONDecodeError")

\* An HTTP error answered with an empty dataset.
_request_return_empty_list(resp) ==
    IF raise_for_status(resp) THEN Return(PyDict("data" :> PyList(<<>>)))
    ELSE IF resp.text # "" THEN json(resp.text)
    ELSE Return(PyDict("data" :> PyDict("status" :> PyInt(resp.status_code))))

\* Lines 383-393: what _request returns (or raises) for a response.
_request_return(resp) ==
    IF raise_for_status(resp) THEN Return(EmptyDict)
    ELSE IF resp.text # "" THEN json(resp.text)
    ELSE Return(PyDict("data" :> PyDict("status" :> PyInt(resp.status_code))))

\* The endpoint handing back what _request returned, not its data field.
unwrap_whole(ret) == ret

\* response.get("data"), the last line of every endpoint method: the data
\* entry of a dict, None when it has none; a non-dict has no get().
unwrap(ret) ==
    IF ret.kind = "raise" THEN ret
    ELSE IF ret.value.t # "dict" THEN Raise("AttributeError")
    ELSE IF "data" \in DOMAIN ret.value.v THEN Return(ret.value.v["data"])
    ELSE Return(None)

-----------------------------------------------------------------------------
(* The inputs: constructor tokens, method arguments, responses.            *)
Tokens == {"tokA", "tokB"}
ContractIds == {PyInt(22202077), PyStr("day-ahead")}
Mids == {PyStr("mid-1"), PyStr("mid-2")}
Bools == {PyBool(TRUE), PyBool(FALSE)}

\* A value a caller may supply for each optional parameter.
ArgValue(k) ==
    CASE k = "active" -> PyStr("true")
      [] k = "contract_type" -> PyStr("Call")
      [] k = "derivative_type" -> PyStr("future_contract")
      [] k = "asset" -> PyStr("CBTC")
      [] k = "before_ts" -> PyDatetime("2022-06-01T00:00:00")
      [] k = "after_ts" -> PyDatetime("2022-01-01T00:00:00")
      [] k = "time" -> PyDatetime("2022-03-01T12:00:00")
      [] k = "limit" -> PyInt(5)
      [] k = "offset" -> PyInt(10)

\* The optional parameters a caller supplies: none, any single one, or all;
\* the others keep their default None.
SuppliedSets(keys) == {{}} \cup {{k} : k \in keys} \cup {keys}
OptionalArgs(keys) ==
    {[k \in keys |-> IF k \in S THEN ArgValue(k) ELSE None] : S \in SuppliedSets(keys)}

Statuses == {101, 200, 204, 301, 401, 500}
Responses == [status_code : Statuses, text : Bodies]

-----------------------------------------------------------------------------
\* Lines 17-19: the state of a client after LedgerX(jwt_token).
Init ==
    /\ arg_jwt_token \in Tokens
    /\ jwt_token = arg_jwt_token
    /\ session = "Session#1"
    /\ pc = "idle"
    /\ nCalls = 0
    /\ call = None
    /\ request = None
    /\ issued = <<>>
    /\ response = None
    /\ request_result = None
    /\ outcome = None

\* A method is entered with arguments args and calls
\* self._request(inv.method, inv.url, inv.data), which runs up to the
\* blocking session.request of line 381.
Enter(name, args, inv) ==
    /\ pc = "idle"
    /\ nCalls < MaxCalls
    /\ nCalls' = nCalls + 1
    /\ call' = [args |-> args, endpoint |-> name]
    /\ request' = [method |-> inv.method,
                   opts |-> opts(inv.method, inv.data, jwt_token),
                   url |-> inv.url]
    /\ issued' = session_request(issued, request')
    /\ pc' = "in_request"
    /\ UNCHANGED <<jwt_token, session, arg_jwt_token, response, request_result, outcome>>

Call_get_contracts ==
    \E a \in OptionalArgs({"active", "contract_type", "derivative_type", "asset",
                           "before_ts", "after_ts", "limit", "offset"}) :
        Enter("get_contracts", a,
              get_contracts(a.active, a.contract_type, a.derivative_type, a.asset,
                            a.before_ts, a.after_ts, a.limit, a.offset))

Call_get_traded_contracts ==
    \E a \in OptionalArgs({"derivative_type", "asset", "limit", "offset"}) :
        Enter("get_traded_contracts", a,
              get_traded_contracts(a.derivative_type, a.asset, a.limit, a.offset))

Call_get_contract_details ==
    \E c \in ContractIds :
        Enter("get_contract_details", [contract_id |-> c], get_contract_details(c))

Call_get_contract_position ==
    \E c \in ContractIds :
        Enter("get_contract_position", [contract_id |-> c], get_contract_position(c))

Call_get_contract_ticker ==
    \E c \in ContractIds, a \in OptionalArgs({"time", "asset"}) :
        Enter("get_contract_ticker",
              [asset |-> a.asset, contract_id |-> c, time |-> a.time],
              get_contract_ticker(c, a.time, a.asset))

Call_get_positions ==
    \E a \in OptionalArgs({"limit", "offset"}) :
        Enter("get_positions", a, get_positions(a.limit, a.offset))

Call_get_trades_for_position ==
    \E c \in ContractIds :
        Enter("get_trades_for_position", [contract_id |-> c],
              get_trades_for_position(c))

Call_get_open_orders == Enter("get_open_orders", <<>>, get_open_orders)

\* volatile defaults to False and swap_purpose to "undisclosed" (lines
\* 233-234); a caller may pass None for volatile, which is Optional.
CreateOrderOptions ==
    {<<PyBool(FALSE), PyStr("undisclosed")>>, <<None, PyStr("undisclosed")>>,
     <<PyBool(TRUE), PyStr("bf_hedge")>>}
Call_create_order ==
    \E c \in ContractIds, is_ask \in Bools, o \in CreateOrderOptions :
        LET a == [contract_id |-> c, is_ask |-> is_ask, order_type |-> PyStr("limit"),
                  price |-> PyInt(2500000), size |-> PyInt(1),
                  swap_purpose |-> o[2], volatile |-> o[1]]
        IN  Enter("create_order", a,
                  create_order(a.contract_id, a.order_type, a.is_ask, a.size,
                               a.price, a.volatile, a.swap_purpose))

Call_delete_all_orders == Enter("delete_all_orders", <<>>, delete_all_orders)

Call_delete_single_order ==
    \E m \in Mids, c \in ContractIds :
        Enter("delete_single_order", [contract_id |-> c, mid |-> m],
              delete_single_order(m, c))

Call_patch_order ==
    \E m \in Mids, c \in ContractIds :
        LET a == [contract_id |-> c, mid |-> m, price |-> PyInt(2600000),
                  size |-> PyInt(2)]
        IN  Enter("patch_order", a, patch_order(a.mid, a.contract_id, a.price, a.size))

Call_get_current_book_state ==
    \E c \in ContractIds :
        Enter("get_current_book_state", [contract_id |-> c],
              get_current_book_state(c))

\* _request called directly, with any verb in any case.
DirectMethods ==
    {GET, <<"g","e","t">>, <<"G","e","t">>, DELETE, <<"d","e","l","e","t","e">>,
     POST, <<"p","u","t">>, PATCH}
DirectData == {None, PyDict([contract_id |-> PyInt(22202077)]),
               PyDict([limit |-> PyInt(5), offset |-> None])}
Call__request ==
    \E m \in DirectMethods, d \in DirectData :
        LET inv == Invocation(m, Url(TradeHost, <<"api", "orders">>), d)
        IN  Enter("_request", [data |-> d, method |-> m, url |-> inv.url], inv)

\* The exchange answers; _request runs lines 383-393 and returns to the
\* method that called it, which returns response.get("data").
Respond ==
    \E resp \in Responses :
        /\ pc = "in_request"
        /\ response' = resp
        /\ request_result' = _request_return(resp)
        /\ outcome' = IF call.endpoint = "_request" THEN request_result'
                      ELSE unwrap(request_result')
        /\ pc' = "idle"
        /\ UNCHANGED <<jwt_token, session, arg_jwt_token, nCalls, call, request, issued>>

\* The public methods of a client.
Next ==
    \/ Call_get_contracts
    \/ Call_get_traded_contracts
    \/ Call_get_contract_details
    \/ Call_get_contract_position
    \/ Call_get_contract_ticker
    \/ Call_get_positions
    \/ Call_get_trades_for_position
    \/ Call_get_open_orders
    \/ Call_create_order
    \/ Call_delete_all_orders
    \/ Call_delete_single_order
    \/ Call_patch_order
    \/ Call_get_current_book_state
    \/ Respond

Spec == Init /\ [][Next]_vars

\* The dispatcher on its own: _request called with arbitrary verbs.
NextRequest == Call__request \/ Respond

SpecRequest == Init /\ [][NextRequest]_vars

-----------------------------------------------------------------------------
(* Properties.                                                             *)

Called == nCalls > 0
Answered == nCalls > 0 /\ pc = "idle"
IsPublic == call.endpoint # "_request"
\* The mapping as the session received it, whichever keyword carries it.
Payload ==
    IF "params" \in DOMAIN request.opts THEN request.opts["params"]
    ELSE request.opts["json"]
\* The spellings of GET and DELETE among the verbs _request is called with.
QuerySpellings ==
    {<<"G","E","T">>, <<"g","e","t">>, <<"G","e","t">>,
     <<"D","E","L","E","T","E">>, <<"d","e","l","e","t","e">>}

\* C1: every call of _request places the mapping by its verb: GET and
\* DELETE, in any case, send it as the query string (params) and no JSON
\* body; every other verb sends it as the JSON body and no query string.
C1_PlacementByVerb ==
    Called =>
        IF call.args.method \in QuerySpellings
        THEN /\ "params" \in DOMAIN request.opts
             /\ "json" \notin DOMAIN request.opts
             /\ request.opts["params"] = call.args.data
        ELSE /\ "json" \in DOMAIN request.opts
             /\ "params" \notin DOMAIN request.opts
             /\ request.opts["json"] = call.args.data

C1_Witness ==
    /\ Called
    /\ call.args.method = <<"G","e","t">>
    /\ call.args.data = PyDict([limit |-> PyInt(5), offset |-> None])
    /\ "params" \in DOMAIN request.opts

\* C2 as stated: every response whose status is not 2xx makes _request
\* return {} and the endpoint method return None.
C2_NonSuccessSwallowed ==
    (Answered /\ IsPublic /\ response.status_code \notin 200..299) =>
        /\ request_result = Return(EmptyDict)
        /\ outcome = Return(None)

\* C2 amended: every response whose status is 4xx or 5xx, whatever its
\* body, makes _request return {} and the endpoint method return None.
C2_ErrorStatusSwallowed ==
    (Answered /\ IsPublic /\ response.status_code \in 400..599) =>
        /\ request_result = Return(EmptyDict)
        /\ outcome = Return(None)

C2_Witness ==
    /\ Answered /\ IsPublic
    /\ response = [status_code |-> 401, text |-> BodyOrders]
    /\ request_result = Return(EmptyDict)
    /\ outcome = Return(None)

\* C3: whenever the response body is empty, _request returns
\* {"data": {"status": <status code>}} and the endpoint {"status": <code>}.
C3_EmptyBodyStatusPayload ==
    (Answered /\ IsPublic /\ response.text = "") =>
        /\ request_result =
               Return(PyDict("data" :> PyDict("status" :> PyInt(response.status_code))))
        /\ outcome = Return(PyDict("status" :> PyInt(response.status_code)))

\* What a method returns when the exchange answers 200 with the given body.
SuccessOutcome(text) == unwrap(_request_return([status_code |-> 200, text |-> text]))

\* C4 as stated: what a method returns on an HTTP error equals what it
\* returns on a success whose data field is an empty list or mapping.
C4_ErrorEqualsEmptyDataset ==
    (Answered /\ IsPublic /\ response.status_code \in 400..599) =>
        \A text \in {BodyEmptyList, BodyEmptyDict} : outcome = SuccessOutcome(text)

\* C4 amended: what a method returns on an HTTP error is None, which is
\* what it returns on a success whose JSON body has no data field, and
\* differs from what it returns on a success whose data field is an empty
\* list or an empty mapping.
C4_ErrorEqualsMissingData ==
    (Answered /\ IsPublic /\ response.status_code \in 400..599) =>
        /\ outcome = Return(None)
        /\ outcome = SuccessOutcome(BodyNoData)
        /\ SuccessOutcome(BodyEmptyList) = Return(PyList(<<>>))
        /\ SuccessOutcome(BodyEmptyDict) = Return(EmptyDict)
        /\ \A text \in {BodyEmptyList, BodyEmptyDict} : outcome # SuccessOutcome(text)

C4_Witness ==
    /\ Answered /\ IsPublic
    /\ call.endpoint = "get_contracts"
    /\ response = [status_code |-> 500, text |-> BodyEmptyList]
    /\ outcome = Return(None)

ConstructorHeader == "Authorization" :> ("JWT " \o arg_jwt_token)

\* C6: every request the client has issued carries the header
\* Authorization = "JWT " + <the constructor's token> and nothing else in
\* its place, and has redirect following disabled.
C6_EveryRequestAuthorized ==
    /\ \A i \in DOMAIN issued :
          /\ issued[i].headers = ConstructorHeader
          /\ issued[i].allow_redirects = FALSE
    /\ Called =>
          /\ request.opts["headers"] = ConstructorHeader
          /\ request.opts["allow_redirects"] = FALSE

C6_Witness ==
    /\ arg_jwt_token = "tokB"
    /\ Len(issued) = 2
    /\ issued[1].method = POST
    /\ issued[2].method = DELETE
    /\ issued[2].headers["Authorization"] = "JWT tokB"

ReadOnlyMethods ==
    {"get_contracts", "get_traded_contracts", "get_contract_details",
     "get_contract_position", "get_contract_ticker", "get_positions",
     "get_trades_for_position", "get_open_orders", "get_current_book_state"}
CancelMethods == {"delete_all_orders", "delete_single_order", "patch_order"}

\* C7: every request of a public method uses GET, POST or DELETE on one of
\* the two fixed hosts: the read-only methods GET, create_order POST,
\* delete_all_orders, delete_single_order and patch_order DELETE.
C7_VerbsAndHosts ==
    /\ \A i \in DOMAIN issued :
          /\ issued[i].method \in {<<"G","E","T">>, <<"P","O","S","T">>,
                                   <<"D","E","L","E","T","E">>}
          /\ issued[i].host \in {"api.ledgerx.com", "trade.ledgerx.com"}
    /\ Called =>
          /\ request.url.scheme = "https"
          /\ request.url.host \in {"api.ledgerx.com", "trade.ledgerx.com"}
          /\ call.endpoint \in ReadOnlyMethods => request.method = <<"G","E","T">>
          /\ call.endpoint = "create_order" => request.method = <<"P","O","S","T">>
          /\ call.endpoint \in CancelMethods =>
                 request.method = <<"D","E","L","E","T","E">>
          /\ call.endpoint \in ReadOnlyMethods \cup CancelMethods \cup {"create_order"}

C7_Witness ==
    /\ Called
    /\ call.endpoint = "patch_order"
    /\ request.method = <<"D","E","L","E","T","E">>
    /\ request.url.host = "trade.ledgerx.com"

\* The keys of the mapping each method declares (none: it passes no mapping).
DataKeys(name) ==
    CASE name = "get_contracts" ->
            {"active", "contract_type", "derivative_type", "asset", "before_ts",
             "after_ts", "limit", "offset"}
      [] name = "get_traded_contracts" -> {"derivative_type", "asset", "limit", "offset"}
      [] name = "get_contract_ticker" -> {"time", "asset"}
      [] name = "get_positions" -> {"limit", "offset"}
      [] name = "create_order" ->
            {"contract_id", "order_type", "is_ask", "size", "price", "volatile",
             "swap_purpose"}
      [] name = "delete_single_order" -> {"contract_id"}
      [] name = "patch_order" -> {"contract_id", "price", "size"}
      [] OTHER -> {}

\* C8: the mapping the session receives holds every declared key of the
\* method with exactly the value the caller supplied, None included, and
\* no other entry.
C8_ParametersPassedThrough ==
    (Called /\ IsPublic) =>
        IF DataKeys(call.endpoint) = {} THEN Payload = None
        ELSE /\ Payload.t = "dict"
             /\ DOMAIN Payload.v = DataKeys(call.endpoint)
             /\ \A k \in DataKeys(call.endpoint) : Payload.v[k] = call.args[k]

C8_Witness ==
    /\ Called
    /\ call.endpoint = "get_contracts"
    /\ call.args["limit"] = PyInt(5)
    /\ call.args["active"] = None
    /\ "active" \in DOMAIN request.opts["params"].v
    /\ request.opts["params"].v["active"] = None
    /\ request.opts["params"].v["limit"] = PyInt(5)

\* C9: every method call issues exactly one request and then returns: the
\* n-th call's request is the n-th request issued, and no response,
\* whatever its status, makes the client send anything again.
C9_OneRequestPerCall ==
    /\ [](/\ Len(issued) = nCalls
          /\ Called => issued[nCalls] = Digest(request))
    /\ [][/\ pc = "in_request" => (issued' = issued /\ nCalls' = nCalls /\ pc' = "idle")
          /\ pc = "idle" =>
                 /\ nCalls' = nCalls + 1
                 /\ Len(issued') = Len(issued) + 1
                 /\ SubSeq(issued', 1, Len(issued)) = issued]_vars

C9_Witness ==
    /\ Answered
    /\ nCalls = 2
    /\ Len(issued) = 2
    /\ call.endpoint = "delete_single_order"
    /\ response.status_code = 500

\* What a method call hands to _request, from the call alone.
InvocationOf(c) ==
    LET a == c.args
    IN  CASE c.endpoint = "get_contracts" ->
                get_contracts(a.active, a.contract_type, a.derivative_type, a.asset,
                              a.before_ts, a.after_ts, a.limit, a.offset)
          [] c.endpoint = "get_traded_contracts" ->
                get_traded_contracts(a.derivative_type, a.asset, a.limit, a.offset)
          [] c.endpoint = "get_contract_details" -> get_contract_details(a.contract_id)
          [] c.endpoint = "get_contract_position" -> get_contract_position(a.contract_id)
          [] c.endpoint = "get_contract_ticker" ->
                get_contract_ticker(a.contract_id, a.time, a.asset)
          [] c.endpoint = "get_positions" -> get_positions(a.limit, a.offset)
          [] c.endpoint = "get_trades_for_position" ->
                get_trades_for_position(a.contract_id)
          [] c.endpoint = "get_open_orders" -> get_open_orders
          [] c.endpoint = "create_order" ->
                create_order(a.contract_id, a.order_type, a.is_ask, a.size, a.price,
                             a.volatile, a.swap_purpose)
          [] c.endpoint = "delete_all_orders" -> delete_all_orders
          [] c.endpoint = "delete_single_order" ->
                delete_single_order(a.mid, a.contract_id)
          [] c.endpoint = "patch_order" ->
                patch_order(a.mid, a.contract_id, a.price, a.size)
          [] c.endpoint = "get_current_book_state" ->
                get_current_book_state(a.contract_id)

\* C10: no method call changes the stored token or replaces the session,
\* and the request of a call is determined by the call's arguments and the
\* constructor's token: nothing of an earlier call or response is in it.
C10_NoStateBetweenCalls ==
    /\ [][jwt_token' = jwt_token /\ session' = session]_vars
    /\ [](jwt_token = arg_jwt_token)
    /\ []((Called /\ IsPublic) =>
            LET inv == InvocationOf(call)
                placement ==
                    IF inv.method \in {<<"G","E","T">>, <<"D","E","L","E","T","E">>}
                    THEN "params" ELSE "json"
            IN  request =
                    [method |-> inv.method,
                     opts |-> ("allow_redirects" :> FALSE)
                              @@ ("headers" :> ConstructorHeader)
                              @@ (placement :> inv.data),
                     url |-> inv.url])

C10_Witness ==
    /\ Answered
    /\ nCalls = 2
    /\ issued[1].method = POST
    /\ call.endpoint = "get_positions"
    /\ response.status_code = 401
    /\ DOMAIN request.opts = {"headers", "allow_redirects", "params"}

====
